---- MODULE Spec2Model ----
(***************************************************************************)
(* Model of the command protocol of antos07/sockets_lab: the accept loop   *)
(* of SocketServer.run, the session loop of                                *)
(* CommandServer.handle_connection, the framing of _receive_message and    *)
(* _send_command, the buffered read _recv, and the command classes.        *)
(* Bytes are integers 0..255, byte strings are sequences of bytes, and a   *)
(* Python str is the sequence of its code points.                          *)
(***************************************************************************)
EXTENDS Integers, Sequences, FiniteSets, TLC

VARIABLES
    pc,               \* where SocketServer.run / handle_connection stands
    session_data,     \* SessionData of the connection being handled
    buffer,           \* CommandServer._buffer
    header_length,    \* local of _receive_message
    command_type,     \* local of _receive_message: the name looked up
    response_command, \* local of handle_connection: the last response
    sent,             \* bytes written to conn by _send on this connection
    wire,             \* bytes the peer wrote that conn.recv has not returned yet
    peer,             \* the peer's end of the connection: "none", "open", "closed"
    outcome,          \* how the last handle_connection call ended
    executed,         \* history: the commands executed on this connection
    nmsgs,            \* messages the peer wrote on this connection
    splits,           \* short reads conn.recv made on this connection
    conns,            \* connections accepted so far
    leftover,         \* history: the connection before this one ended with
                      \* unread bytes in _buffer and counted numbers
    cpc,              \* where the client process stands
    creceiving,       \* where CommandClient._receive_message stands
    cbuffer,          \* CommandClient._buffer
    cheader_length,   \* local of CommandClient._receive_message
    ccommand_type,    \* local of CommandClient._receive_message
    cread,            \* how many bytes of sent the client's recv has returned
    mode,             \* the ClientMode chosen (0: none yet)
    yielded,          \* numbers _random_numbers_generator has yielded
    lines,            \* lines the user has typed
    number,           \* the n of the loop of _filter_primes
    output_file,      \* the numbers written to the output file
    stdout,           \* what the client printed, one tag per print
    requests,         \* history: the commands the client sent
    responses,        \* history: what _receive_message returned to the client
    cexc,             \* the exception that left CommandClient.run ("" if none)
    csocket,          \* the calls made on the client's socket
    input,            \* the value a function under evaluation is applied to
    output            \* what it returned

\* the variables of the server
server_vars == <<pc, session_data, buffer, header_length, command_type,
                 response_command, sent, outcome, executed, splits, conns,
                 leftover>>

\* the variables of the connection
conn_vars == <<wire, peer, nmsgs>>

\* the variables of the client
client_vars == <<cpc, creceiving, cbuffer, cheader_length, ccommand_type,
                 cread, mode, yielded, lines, number, output_file, stdout,
                 requests, responses, cexc, csocket>>

\* the variables of a function under evaluation
pure_vars == <<input, output>>

vars == <<server_vars, conn_vars, client_vars, pure_vars>>

-----------------------------------------------------------------------------
(* Bounds of the model *)

\* Messages a peer writes on one connection under Spec.
MaxMsgs == 2
\* Messages a peer writes on one connection under SpecSession.
MaxSessionMsgs == 5
\* Short reads (conn.recv returning fewer bytes than are in flight) per connection.
MaxSplits == 1
\* Connections the server accepts.
MaxConns == 2
\* Lines the user of the client types before typing only lines that end a
\* prompt (a valid mode, the empty line).
MaxLines == 4
\* The numbers _random_numbers_generator yields (its n, 50 in the source).
RandomCount == 2
\* _is_prime is applied to every n in -MaxN..MaxN.
MaxN == 60
\* the messages of one stream
MaxStream == 2

-----------------------------------------------------------------------------
(* Program constants *)

MESSAGE_HEADER_SIZE_LENGTH == 1
RECV_BUFFER_SIZE == 256
MAX_ALLOWED == 2147483647
MIN_ALLOWED == -2147483647 - 1
WhoDataLength == 128
BoolDataLength == 1
IsPrimeDataLength == 4
FinishSessionDataLength == 0
StatsDataLength == 16

\* command names, as code points (all ASCII, so also their UTF-8 bytes)
WhoName == <<119, 104, 111>>
BoolName == <<98, 111, 111, 108>>
IsPrimeName == <<105, 115, 112, 114, 105, 109, 101>>
FinishSessionName ==
    <<102, 105, 110, 105, 115, 104, 115, 101, 115, 115, 105, 111, 110>>
StatsName == <<115, 116, 97, 116, 115>>

\* constants.AUTHOR: the identity string the server is configured with
AUTHOR == <<65, 84>>

-----------------------------------------------------------------------------
(* Sequences and Python slices *)

Min(a, b) == IF a < b THEN a ELSE b
Max(a, b) == IF a > b THEN a ELSE b

Take(s, n) == SubSeq(s, 1, n)
Drop(s, n) == SubSeq(s, n + 1, Len(s))

\* the index at which s[:n] / s[n:] cut s, for any integer n
SliceCut(s, n) ==
    IF n >= 0 THEN Min(n, Len(s)) ELSE Max(0, Len(s) + n)

Zeros(n) == [i \in 1..n |-> 0]

\* Strip0 that strips nothing
Strip0Nothing(b) == b

\* bytes.strip(b'\0'): leading and trailing zero bytes removed
Strip0(b) ==
    LET kept == {i \in 1..Len(b) : b[i] # 0}
    IN IF kept = {} THEN <<>>
       ELSE SubSeq(b, CHOOSE i \in kept : \A j \in kept : i <= j,
                      CHOOSE i \in kept : \A j \in kept : j <= i)

\* bytes.ljust(width, b'\0')
LJust0(b, width) ==
    IF Len(b) >= width THEN b ELSE b \o Zeros(width - Len(b))

-----------------------------------------------------------------------------
(* UTF-8: bytes.decode() and str.encode(), strict *)

UnicodeDecodeError == <<-1>>
UnicodeEncodeError == <<-2>>

IsCont(x) == x \in 128..191

\* the range allowed for the byte that follows lead byte c
SecondLo(c) == IF c = 224 THEN 160 ELSE IF c = 240 THEN 144 ELSE 128
SecondHi(c) == IF c = 237 THEN 159 ELSE IF c = 244 THEN 143 ELSE 191

\* the length of the sequence lead byte c starts, 0 when c starts none
LeadLen(c) ==
    IF c < 128 THEN 1
    ELSE IF c \in 194..223 THEN 2
    ELSE IF c \in 224..239 THEN 3
    ELSE IF c \in 240..244 THEN 4
    ELSE 0

\* b[i] starts a well-formed sequence
WellFormedAt(b, i) ==
    LET n == LeadLen(b[i])
    IN /\ n > 0
       /\ i + n - 1 <= Len(b)
       /\ n >= 2 => b[i + 1] \in SecondLo(b[i])..SecondHi(b[i])
       /\ n >= 3 => IsCont(b[i + 2])
       /\ n >= 4 => IsCont(b[i + 3])

\* the continuation byte b[i] belongs to the sequence a lead byte before it
\* starts
Covered(b, i) ==
    \E j \in Max(1, i - 3)..(i - 1) :
        /\ ~IsCont(b[j])
        /\ LeadLen(b[j]) > i - j
        /\ \A k \in (j + 1)..(i - 1) : IsCont(b[k])

Utf8Valid(b) ==
    \A i \in 1..Len(b) :
        IF IsCont(b[i]) THEN Covered(b, i) ELSE WellFormedAt(b, i)

\* the code point of the sequence that starts at b[i]
CodePointAt(b, i) ==
    LET c == b[i]
        n == LeadLen(c)
    IN CASE n = 1 -> c
         [] n = 2 -> (c - 192) * 64 + (b[i + 1] - 128)
         [] n = 3 -> (c - 224) * 4096 + (b[i + 1] - 128) * 64
                     + (b[i + 2] - 128)
         [] OTHER -> (c - 240) * 262144 + (b[i + 1] - 128) * 4096
                     + (b[i + 2] - 128) * 64 + (b[i + 3] - 128)

\* bytes.decode(): the code points, or UnicodeDecodeError
Utf8Decode(b) ==
    IF \A i \in 1..Len(b) : b[i] < 128 THEN b
    ELSE IF ~Utf8Valid(b) THEN UnicodeDecodeError
    ELSE LET starts == {i \in 1..Len(b) : ~IsCont(b[i])}
             Nth(k) == CHOOSE i \in starts :
                           Cardinality({j \in starts : j < i}) = k - 1
         IN [k \in 1..Cardinality(starts) |-> CodePointAt(b, Nth(k))]

EncodeCodePoint(cp) ==
    IF cp < 128 THEN <<cp>>
    ELSE IF cp < 2048 THEN <<192 + (cp \div 64), 128 + (cp % 64)>>
    ELSE IF cp < 65536 THEN
        <<224 + (cp \div 4096), 128 + ((cp \div 64) % 64), 128 + (cp % 64)>>
    ELSE <<240 + (cp \div 262144), 128 + ((cp \div 4096) % 64),
           128 + ((cp \div 64) % 64), 128 + (cp % 64)>>

RECURSIVE EncodeFrom(_, _)
EncodeFrom(s, i) ==
    IF i > Len(s) THEN <<>> ELSE EncodeCodePoint(s[i]) \o EncodeFrom(s, i + 1)

\* str.encode(): the bytes, or UnicodeEncodeError on a surrogate
Utf8Encode(s) ==
    IF \A i \in 1..Len(s) : s[i] < 128 THEN s
    ELSE IF \E i \in 1..Len(s) : s[i] \in 55296..57343 THEN UnicodeEncodeError
    ELSE EncodeFrom(s, 1)

-----------------------------------------------------------------------------
(* 32-bit little-endian signed integers *)

\* the four bytes of u, 0 <= u < 2^31, least significant first
LeBytes(u) ==
    <<u % 256, (u \div 256) % 256, (u \div 65536) % 256, u \div 16777216>>

\* int.to_bytes(4, "little", signed=True) / struct.pack('<i', n)
Int32ToBytes(n) ==
    IF n >= 0 THEN LeBytes(n)
    ELSE LET m == LeBytes(-(n + 1)) IN [i \in 1..4 |-> 255 - m[i]]

\* int.from_bytes(b, byteorder='little', signed=True) / struct.unpack('<i', b)
Int32FromBytes(b) ==
    (IF b[4] >= 128 THEN b[4] - 256 ELSE b[4]) * 16777216
        + b[3] * 65536 + b[2] * 256 + b[1]

InInt32(n) == MIN_ALLOWED <= n /\ n <= MAX_ALLOWED

-----------------------------------------------------------------------------
(* Commands.  A command is a record with its class in the field name; None *)
(* is the record NoneValue and a raised exception the record Raised(e).    *)

NoneValue == [name |-> "None"]
Raised(e) == [name |-> "raise", exc |-> e]

\* Optional[str]
NoAuthor == [some |-> FALSE, val |-> <<>>]
Author(s) == [some |-> TRUE, val |-> s]
\* the truth value Python gives an Optional[str]
Truthy(a) == a.some /\ a.val # <<>>

WhoCommand(author) == [name |-> "who", author |-> author]
BoolCommand(value) == [name |-> "bool", value |-> value]
IsPrimeCommand(n) ==
    IF ~InInt32(n) THEN Raised("OverflowError")
    ELSE [name |-> "isprime", n |-> n]
FinishSessionCommand == [name |-> "finishsession"]
StatsCommand(numbers_cnt, primes_cnt, min_value, max_value) ==
    [name |-> "stats", numbers_cnt |-> numbers_cnt, primes_cnt |-> primes_cnt,
     min_value |-> min_value, max_value |-> max_value]

\* the class attribute name of each command class, as a str
CommandName(command) ==
    CASE command.name = "who" -> WhoName
      [] command.name = "bool" -> BoolName
      [] command.name = "isprime" -> IsPrimeName
      [] command.name = "finishsession" -> FinishSessionName
      [] command.name = "stats" -> StatsName

SessionData ==
    [author |-> AUTHOR, session_running |-> TRUE, numbers_cnt |-> 0,
     primes_cnt |-> 0, min_value |-> MAX_ALLOWED, max_value |-> MIN_ALLOWED]

(* IsPrimeCommand._is_prime *)

RECURSIVE SqrtSearch(_, _, _)
\* the largest s in lo..hi with s * s <= n
SqrtSearch(n, lo, hi) ==
    IF lo >= hi THEN lo
    ELSE LET mid == (lo + hi + 1) \div 2
         IN IF mid <= n \div mid THEN SqrtSearch(n, mid, hi)
            ELSE SqrtSearch(n, lo, mid - 1)

\* int(math.sqrt(n)) for 1 <= n < 2^31, where the float square root is exact
\* enough for the truncation to be the integer square root
IntSqrt(n) == SqrtSearch(n, 1, Min(n, 65536))

\* _is_prime with range(2, sqrt_n) for range(2, sqrt_n + 1)
_is_prime_short(n) ==
    IF n < 2 THEN FALSE
    ELSE \A d \in 2..(IntSqrt(n) - 1) : n % d # 0

_is_prime(n) ==
    IF n < 2 THEN FALSE
    ELSE \A d \in 2..IntSqrt(n) : n % d # 0

(* __call__ of each command: the new session data and the response *)

\* WhoCall answering with the author of the request
WhoCallEcho(command, sd) ==
    [sd |-> sd,
     response |-> IF ~Truthy(command.author)
                  THEN WhoCommand(command.author)
                  ELSE NoneValue]

WhoCall(command, sd) ==
    [sd |-> sd,
     response |-> IF ~Truthy(command.author)
                  THEN WhoCommand(Author(sd.author))
                  ELSE NoneValue]

\* IsPrimeCall that leaves primes_cnt alone
IsPrimeCallNoPrimes(command, sd) ==
    LET is_prime == _is_prime(command.n)
    IN [sd |-> [sd EXCEPT !.numbers_cnt = @ + 1,
                          !.max_value = Max(command.n, @),
                          !.min_value = Min(command.n, @)],
        response |-> BoolCommand(is_prime)]

\* IsPrimeCall with max and min exchanged
IsPrimeCallSwapped(command, sd) ==
    LET is_prime == _is_prime(command.n)
    IN [sd |-> [sd EXCEPT !.numbers_cnt = @ + 1,
                          !.max_value = Min(command.n, @),
                          !.min_value = Max(command.n, @),
                          !.primes_cnt = IF is_prime THEN @ + 1 ELSE @],
        response |-> BoolCommand(is_prime)]

\* IsPrimeCall with the minimum taken against max_value
IsPrimeCallMinOfMax(command, sd) ==
    LET is_prime == _is_prime(command.n)
    IN [sd |-> [sd EXCEPT !.numbers_cnt = @ + 1,
                          !.max_value = Max(command.n, @),
                          !.min_value = Min(command.n, sd.max_value),
                          !.primes_cnt = IF is_prime THEN @ + 1 ELSE @],
        response |-> BoolCommand(is_prime)]

IsPrimeCall(command, sd) ==
    LET is_prime == _is_prime(command.n)
    IN [sd |-> [sd EXCEPT !.numbers_cnt = @ + 1,
                          !.max_value = Max(command.n, @),
                          !.min_value = Min(command.n, @),
                          !.primes_cnt = IF is_prime THEN @ + 1 ELSE @],
        response |-> BoolCommand(is_prime)]

\* FinishSessionCall that leaves session_running set
FinishSessionCallKeepsRunning(command, sd) ==
    [sd |-> sd,
     response |-> StatsCommand(sd.numbers_cnt, sd.primes_cnt,
                               sd.min_value, sd.max_value)]

FinishSessionCall(command, sd) ==
    [sd |-> [sd EXCEPT !.session_running = FALSE],
     response |-> StatsCommand(sd.numbers_cnt, sd.primes_cnt,
                               sd.min_value, sd.max_value)]

\* command(session_data)
Call(command, sd) ==
    CASE command.name = "who" -> WhoCall(command, sd)
      [] command.name = "isprime" -> IsPrimeCall(command, sd)
      [] command.name = "finishsession" -> FinishSessionCall(command, sd)
      [] OTHER -> [sd |-> sd, response |-> NoneValue]

(* from_bytes / to_bytes of each command.  to_bytes gives Bytes(b), or *)
(* NoBytes(e) when it raises e.                                        *)

Bytes(b) == [exc |-> "", bytes |-> b]
NoBytes(e) == [exc |-> e, bytes |-> <<>>]

WhoFromBytes(data_bytes) ==
    LET author == Utf8Decode(Strip0(data_bytes))
    IN IF author = UnicodeDecodeError THEN Raised("UnicodeDecodeError")
       ELSE WhoCommand(IF author = <<>> THEN NoAuthor ELSE Author(author))

WhoToBytes(command) ==
    IF ~Truthy(command.author) THEN Bytes(Zeros(WhoDataLength))
    ELSE LET encoded == Utf8Encode(command.author.val)
         IN IF encoded = UnicodeEncodeError THEN NoBytes("LookupError")
            ELSE IF Len(LJust0(encoded, WhoDataLength)) > WhoDataLength
                 THEN NoBytes("ValueError")
            ELSE Bytes(LJust0(encoded, WhoDataLength))

\* int.from_bytes(data_bytes, byteorder="little") is 0 or 1 exactly when the
\* first byte is (b'' gives 0) and every later byte is 0
BoolFromBytes(data_bytes) ==
    LET value == IF data_bytes = <<>> THEN 0 ELSE data_bytes[1]
    IN IF value \notin {0, 1} \/ \E i \in 2..Len(data_bytes) : data_bytes[i] # 0
       THEN Raised("ValueError")
       ELSE BoolCommand(value = 1)

BoolToBytes(command) == Bytes(<<IF command.value THEN 1 ELSE 0>>)

\* int.from_bytes(b, byteorder='little', signed=True) for b of any length:
\* the byte that extends the sign of b
SignFill(b) == IF b # <<>> /\ b[Len(b)] >= 128 THEN 255 ELSE 0
\* b cut or sign-extended to four bytes
FourBytes(b) == [i \in 1..4 |-> IF i <= Len(b) THEN b[i] ELSE SignFill(b)]
\* whether the value of b lies in [-2^31, 2^31-1]: the bytes after the
\* fourth only extend its sign
SignedFits(b) ==
    /\ \A i \in 5..Len(b) : b[i] = SignFill(b)
    /\ Len(b) > 4 => ((b[4] >= 128) <=> (SignFill(b) = 255))

IsPrimeFromBytes(data_bytes) ==
    IF ~SignedFits(data_bytes) THEN Raised("OverflowError")
    ELSE IsPrimeCommand(Int32FromBytes(FourBytes(data_bytes)))

IsPrimeToBytes(command) == Bytes(Int32ToBytes(command.n))

FinishSessionFromBytes(data_bytes) == FinishSessionCommand

FinishSessionToBytes(command) == Bytes(<<>>)

\* struct.unpack('<iiii', data_bytes) raises struct.error unless it is given
\* 16 bytes
StatsFromBytes(data_bytes) ==
    IF Len(data_bytes) # StatsDataLength THEN Raised("struct.error")
    ELSE StatsCommand(Int32FromBytes(SubSeq(data_bytes, 1, 4)),
                      Int32FromBytes(SubSeq(data_bytes, 5, 8)),
                      Int32FromBytes(SubSeq(data_bytes, 9, 12)),
                      Int32FromBytes(SubSeq(data_bytes, 13, 16)))

StatsToBytes(command) ==
    IF \E f \in {"numbers_cnt", "primes_cnt", "min_value", "max_value"} :
           ~InInt32(command[f])
    THEN NoBytes("struct.error")
    ELSE Bytes(Int32ToBytes(command.numbers_cnt)
               \o Int32ToBytes(command.primes_cnt)
               \o Int32ToBytes(command.min_value)
               \o Int32ToBytes(command.max_value))

\* bytes(command)
ToBytes(command) ==
    CASE command.name = "who" -> WhoToBytes(command)
      [] command.name = "bool" -> BoolToBytes(command)
      [] command.name = "isprime" -> IsPrimeToBytes(command)
      [] command.name = "finishsession" -> FinishSessionToBytes(command)
      [] command.name = "stats" -> StatsToBytes(command)

\* cls.from_bytes(data_bytes), cls given by its name
from_bytes(cls, data_bytes) ==
    CASE cls = "who" -> WhoFromBytes(data_bytes)
      [] cls = "bool" -> BoolFromBytes(data_bytes)
      [] cls = "isprime" -> IsPrimeFromBytes(data_bytes)
      [] cls = "finishsession" -> FinishSessionFromBytes(data_bytes)
      [] cls = "stats" -> StatsFromBytes(data_bytes)

(* CommandServer: the registry and the framing *)

\* CommandServer.commands_decode_table: the names it holds
commands_decode_table == {WhoName, IsPrimeName, FinishSessionName}

\* command_type.data_length
DataLength(command_name) ==
    CASE command_name = WhoName -> WhoDataLength
      [] command_name = IsPrimeName -> IsPrimeDataLength
      [] command_name = FinishSessionName -> FinishSessionDataLength
      [] command_name = BoolName -> BoolDataLength
      [] command_name = StatsName -> StatsDataLength

\* command_type.from_bytes(command_data)
FromBytes(command_name, data_bytes) ==
    CASE command_name = WhoName -> WhoFromBytes(data_bytes)
      [] command_name = IsPrimeName -> IsPrimeFromBytes(data_bytes)
      [] command_name = FinishSessionName -> FinishSessionFromBytes(data_bytes)

\* CommandClient.commands_decode_table: the names it holds
client_decode_table == {WhoName, BoolName, StatsName}

\* command_type.from_bytes(command_data) in CommandClient._receive_message
ClientFromBytes(command_name, data_bytes) ==
    CASE command_name = WhoName -> WhoFromBytes(data_bytes)
      [] command_name = BoolName -> BoolFromBytes(data_bytes)
      [] command_name = StatsName -> StatsFromBytes(data_bytes)

\* _send_command: the message handed to _send, or the exception raised
EncodeMessage(command) ==
    IF command = NoneValue THEN NoBytes("AttributeError")
    ELSE LET encoded_command_name == Utf8Encode(CommandName(command))
             header_length_ ==
                 MESSAGE_HEADER_SIZE_LENGTH + Len(encoded_command_name)
             data == ToBytes(command)
         IN IF header_length_ > 255 THEN NoBytes("OverflowError")
            ELSE IF data.exc # "" THEN data
            ELSE Bytes(<<header_length_>> \o encoded_command_name
                       \o data.bytes)

-----------------------------------------------------------------------------
(* What a peer writes *)

\* the message a well-behaved client writes for command (its _send_command
\* is the server's)
Message(command) == EncodeMessage(command).bytes

\* the numbers a peer asks about under SpecSession
SessionNumbers == {MIN_ALLOWED, 2, 3, 4, 5}

\* a session as the client drives it: who(), isprime(n), finishsession()
SessionMessages ==
    {Message(WhoCommand(NoAuthor)), Message(FinishSessionCommand)}
        \cup {Message(IsPrimeCommand(n)) : n \in SessionNumbers}

EmptyMessage == <<MESSAGE_HEADER_SIZE_LENGTH>>
\* who with a payload that is not UTF-8
BadWhoMessage == <<4>> \o WhoName \o <<255>> \o Zeros(WhoDataLength - 1)
\* a name that is not UTF-8
BadNameMessage == <<2, 255>>
\* a header byte of 0
ZeroHeader == <<0>>

\* everything a peer writes under Spec
PeerMessages ==
    {Message(WhoCommand(NoAuthor)), Message(WhoCommand(Author(<<88>>))),
     Message(IsPrimeCommand(2)), Message(IsPrimeCommand(4)),
     Message(FinishSessionCommand), Message(BoolCommand(TRUE)),
     Message(StatsCommand(4, 3, 2, 5)),
     EmptyMessage, BadWhoMessage, BadNameMessage, ZeroHeader}

\* where a peer that dies mid-message stops: inside the header and name, just
\* before the payload, inside the payload
CutPoints(m) == {k \in {1, 2, m[1], m[1] + 1, Len(m) - 1} : 0 < k /\ k < Len(m)}

\* the sizes of a short read
ShortReads == {1, 3}

-----------------------------------------------------------------------------
(* The state machine *)

Handling == {"header", "name", "data"}

\* the n of the _recv(conn, n) the server stands in
Wanted ==
    CASE pc = "header" -> MESSAGE_HEADER_SIZE_LENGTH
      [] pc = "name" -> header_length - MESSAGE_HEADER_SIZE_LENGTH
      [] pc = "data" -> DataLength(command_type)
      [] OTHER -> 0

\* the server after construction
ServerInit ==
    /\ pc = "accept"
    /\ session_data = SessionData
    /\ buffer = <<>>
    /\ header_length = 0
    /\ command_type = <<>>
    /\ response_command = NoneValue
    /\ sent = <<>>
    /\ wire = <<>>
    /\ outcome = "none"
    /\ executed = <<>>
    /\ nmsgs = 0
    /\ splits = 0
    /\ conns = 0
    /\ leftover = FALSE

\* the client process before CommandClient is constructed
ClientInit ==
    /\ cpc = "unconnected"
    /\ creceiving = "idle"
    /\ cbuffer = <<>>
    /\ cheader_length = 0
    /\ ccommand_type = <<>>
    /\ cread = 0
    /\ mode = 0
    /\ yielded = 0
    /\ lines = 0
    /\ number = [big |-> FALSE, val |-> 0]
    /\ output_file = <<>>
    /\ stdout = <<>>
    /\ requests = <<>>
    /\ responses = <<>>
    /\ cexc = ""
    /\ csocket = <<>>

\* no function under evaluation
PureInit ==
    /\ input = [function |-> "none"]
    /\ output = [function |-> "none"]

Init == ServerInit /\ peer = "none" /\ ClientInit /\ PureInit

\* Accept with handle_connection keeping the _buffer of the connection before
AcceptKeepsBuffer ==
    /\ pc = "accept"
    /\ conns < MaxConns
    /\ pc' = "header"
    /\ session_data' = SessionData
    /\ buffer' = buffer
    /\ header_length' = 0
    /\ command_type' = <<>>
    /\ response_command' = NoneValue
    /\ sent' = <<>>
    /\ wire' = <<>>
    /\ peer' = "open"
    /\ outcome' = "none"
    /\ executed' = <<>>
    /\ nmsgs' = 0
    /\ splits' = 0
    /\ conns' = conns + 1
    /\ leftover' = (buffer # <<>> /\ session_data.numbers_cnt > 0)
    /\ UNCHANGED <<client_vars, pure_vars>>

\* SocketServer.run: accept returns a connection and handle_connection starts
\* with a new SessionData and an empty _buffer
Accept ==
    /\ pc = "accept"
    /\ conns < MaxConns
    /\ pc' = "header"
    /\ session_data' = SessionData
    /\ buffer' = <<>>
    /\ header_length' = 0
    /\ command_type' = <<>>
    /\ response_command' = NoneValue
    /\ sent' = <<>>
    /\ wire' = <<>>
    /\ peer' = "open"
    /\ outcome' = "none"
    /\ executed' = <<>>
    /\ nmsgs' = 0
    /\ splits' = 0
    /\ conns' = conns + 1
    /\ leftover' = (buffer # <<>> /\ session_data.numbers_cnt > 0)
    /\ UNCHANGED <<client_vars, pure_vars>>

\* the peer writes the bytes m
PeerSend(m) ==
    /\ pc \in Handling
    /\ peer = "open"
    /\ wire' = wire \o m
    /\ nmsgs' = nmsgs + 1
    /\ UNCHANGED <<pc, session_data, buffer, header_length, command_type,
                   response_command, sent, peer, outcome, executed, splits,
                   conns,
                   leftover, client_vars, pure_vars>>

\* the peer closes its end
PeerClose ==
    /\ pc \in Handling
    /\ peer = "open"
    /\ peer' = "closed"
    /\ UNCHANGED <<pc, session_data, buffer, header_length, command_type,
                   response_command, sent, wire, outcome, executed, nmsgs,
                   splits, conns,
                   leftover, client_vars, pure_vars>>

\* the peer writes the first k bytes of m and closes its end
PeerSendPartial(m, k) ==
    /\ pc \in Handling
    /\ peer = "open"
    /\ wire' = wire \o Take(m, k)
    /\ nmsgs' = nmsgs + 1
    /\ peer' = "closed"
    /\ UNCHANGED <<pc, session_data, buffer, header_length, command_type,
                   response_command, sent, outcome, executed, splits, conns,
                   leftover, client_vars, pure_vars>>

\* _recv: conn.recv(RECV_BUFFER_SIZE) returns k bytes, appended to _buffer
SockRecv(k) ==
    /\ pc \in Handling
    /\ Len(buffer) < Wanted
    /\ wire # <<>>
    /\ k \in 1..Min(Len(wire), RECV_BUFFER_SIZE)
    /\ buffer' = buffer \o Take(wire, k)
    /\ wire' = Drop(wire, k)
    /\ splits' = IF k < Min(Len(wire), RECV_BUFFER_SIZE)
                 THEN splits + 1 ELSE splits
    /\ UNCHANGED <<pc, session_data, header_length, command_type,
                   response_command, sent, peer, outcome, executed, nmsgs,
                   conns,
                   leftover, client_vars, pure_vars>>

\* RecvBroken with ConnectionBrokenError caught by the loop of
\* handle_connection, which continues
RecvBrokenContinue ==
    /\ pc \in Handling
    /\ Len(buffer) < Wanted
    /\ wire = <<>>
    /\ peer = "closed"
    /\ pc' = "header"
    /\ UNCHANGED <<session_data, buffer, header_length, command_type,
                   response_command, sent, wire, peer, outcome, executed,
                   nmsgs, splits, conns,
                   leftover, client_vars, pure_vars>>

\* _recv: conn.recv returns b'' and ConnectionBrokenError leaves
\* handle_connection
RecvBroken ==
    /\ pc \in Handling
    /\ Len(buffer) < Wanted
    /\ wire = <<>>
    /\ peer = "closed"
    /\ pc' = "exit"
    /\ outcome' = "ConnectionBrokenError"
    /\ UNCHANGED <<session_data, buffer, header_length, command_type,
                   response_command, sent, wire, peer, executed, nmsgs,
                   splits, conns,
                   leftover, client_vars, pure_vars>>

\* ReceiveHeader without the test for the empty message
ReceiveHeaderNoEmpty ==
    /\ pc = "header"
    /\ Len(buffer) >= Wanted
    /\ LET cut == SliceCut(buffer, Wanted)
       IN /\ buffer' = Drop(buffer, cut)
          /\ header_length' = Take(buffer, cut)[1]
          /\ pc' = "name"
    /\ UNCHANGED <<session_data, command_type, response_command, sent, wire,
                   peer, outcome, executed, nmsgs, splits, conns,
                   leftover, client_vars, pure_vars>>

\* _receive_message: the header byte; a header of 1 returns None and the
\* loop of handle_connection continues
ReceiveHeader ==
    /\ pc = "header"
    /\ Len(buffer) >= Wanted
    /\ LET cut == SliceCut(buffer, Wanted)
           header_length_ == Take(buffer, cut)[1]
       IN /\ buffer' = Drop(buffer, cut)
          /\ header_length' = header_length_
          /\ pc' = IF header_length_ = MESSAGE_HEADER_SIZE_LENGTH
                   THEN "header" ELSE "name"
    /\ UNCHANGED <<session_data, command_type, response_command, sent, wire,
                   peer, outcome, executed, nmsgs, splits, conns,
                   leftover, client_vars, pure_vars>>

\* ReceiveName with UnrecognizedCommandError leaving handle_connection
ReceiveNameRaises ==
    /\ pc = "name"
    /\ Len(buffer) >= Wanted
    /\ LET cut == SliceCut(buffer, Wanted)
           command_name == Utf8Decode(Take(buffer, cut))
       IN /\ buffer' = Drop(buffer, cut)
          /\ IF command_name = UnicodeDecodeError
                \/ command_name \notin commands_decode_table
             THEN /\ pc' = "exit" /\ command_type' = <<>>
                  /\ outcome' = "UnrecognizedCommandError"
             ELSE /\ pc' = "data" /\ command_type' = command_name
                  /\ outcome' = outcome
    /\ UNCHANGED <<session_data, header_length, response_command, sent, wire,
                   peer, executed, nmsgs, splits, conns,
                   leftover, client_vars, pure_vars>>

\* _receive_message: the name and its lookup; UnrecognizedCommandError is
\* caught by handle_connection, whose loop continues
ReceiveName ==
    /\ pc = "name"
    /\ Len(buffer) >= Wanted
    /\ LET cut == SliceCut(buffer, Wanted)
           command_name == Utf8Decode(Take(buffer, cut))
       IN /\ buffer' = Drop(buffer, cut)
          /\ IF command_name = UnicodeDecodeError
                \/ command_name \notin commands_decode_table
             THEN pc' = "header" /\ command_type' = <<>>
             ELSE pc' = "data" /\ command_type' = command_name
    /\ UNCHANGED <<session_data, header_length, response_command, sent, wire,
                   peer, outcome, executed, nmsgs, splits, conns,
                   leftover, client_vars, pure_vars>>

\* whether _send can raise here: a peer that has closed may have reset the
\* connection
SendMayFail == peer = "closed"

\* _receive_message: the payload and from_bytes; then handle_connection
\* executes the command and sends the response.  failed: sendall raises.
ReceiveData(failed) ==
    /\ pc = "data"
    /\ Len(buffer) >= Wanted
    /\ \E cut \in {SliceCut(buffer, Wanted)} :
       \E command \in {FromBytes(command_type, Take(buffer, cut))} :
       \E result \in {Call(command, session_data)} :
       \E message \in {EncodeMessage(result.response)} :
          /\ buffer' = Drop(buffer, cut)
          /\ IF command.name = "raise"
             THEN /\ pc' = "exit"
                  /\ outcome' = command.exc
                  /\ ~failed
                  /\ UNCHANGED <<session_data, response_command, sent,
                                 executed>>
             ELSE /\ session_data' = result.sd
                  /\ response_command' = result.response
                  /\ executed' = Append(executed, command)
                  /\ IF message.exc # ""
                     THEN /\ pc' = "exit"
                          /\ outcome' = message.exc
                          /\ ~failed
                          /\ sent' = sent
                     ELSE IF failed
                     THEN /\ SendMayFail
                          /\ pc' = "exit"
                          /\ outcome' = "OSError"
                          /\ sent' = sent
                     ELSE /\ sent' = sent \o message.bytes
                          /\ pc' = IF result.sd.session_running
                                   THEN "header" ELSE "exit"
                          /\ outcome' = IF result.sd.session_running
                                        THEN outcome ELSE "returned"
    /\ UNCHANGED <<header_length, command_type, wire, peer, nmsgs, splits,
                   conns,
                   leftover, client_vars, pure_vars>>

\* the exceptions run catches with `except Exception`
Exceptions ==
    {"UnicodeDecodeError", "AttributeError", "OSError", "OverflowError",
     "ValueError", "LookupError", "struct.error"}

\* AfterConnection without the `except Exception` clause
AfterConnectionOnlyBroken(how) ==
    IF how = "returned" THEN "accept"
    ELSE IF how = "ConnectionBrokenError" THEN "accept"
    ELSE "crashed"

\* SocketServer.run: what follows handle_connection: "accept" when it
\* returned or its exception was caught, "crashed" when the exception leaves
\* run
AfterConnection(how) ==
    IF how = "returned" THEN "accept"
    ELSE IF how = "ConnectionBrokenError" THEN "accept"
    ELSE IF how \in Exceptions THEN "accept"
    ELSE "crashed"

\* SocketServer.run: `with conn` closes the connection and the loop goes
\* back to accept
CloseConn ==
    /\ pc = "exit"
    /\ pc' = AfterConnection(outcome)
    /\ peer' = "none"
    /\ wire' = <<>>
    /\ UNCHANGED <<session_data, buffer, header_length, command_type,
                   response_command, sent, outcome, executed, nmsgs, splits,
                   conns,
                   leftover, client_vars, pure_vars>>

Next ==
    \/ Accept
    \/ nmsgs < MaxMsgs /\ \E m \in PeerMessages : PeerSend(m)
    \/ nmsgs < MaxMsgs /\ \E m \in PeerMessages :
           \E k \in CutPoints(m) : PeerSendPartial(m, k)
    \/ PeerClose
    \/ SockRecv(Min(Len(wire), RECV_BUFFER_SIZE))
    \/ splits < MaxSplits /\ \E k \in ShortReads : 
           k < Min(Len(wire), RECV_BUFFER_SIZE) /\ SockRecv(k)
    \/ RecvBroken
    \/ ReceiveHeader
    \/ ReceiveName
    \/ \E failed \in BOOLEAN : ReceiveData(failed)
    \/ CloseConn

Spec == Init /\ [][Next]_vars

\* run is straight-line code once handle_connection has ended: it goes on to
\* close the connection
FairSpec == Spec /\ WF_vars(CloseConn)

\* one session as the client drives it: who(), isprime(n) and
\* finishsession(), each written once the response to the one before it is
\* there
NextSession ==
    \/ conns = 0 /\ Accept
    \/ /\ nmsgs < MaxSessionMsgs
       /\ pc = "header" /\ buffer = <<>> /\ wire = <<>>
       /\ \E m \in SessionMessages : PeerSend(m)
    \/ PeerClose
    \/ SockRecv(Min(Len(wire), RECV_BUFFER_SIZE))
    \/ RecvBroken
    \/ ReceiveHeader
    \/ ReceiveName
    \/ \E failed \in BOOLEAN : ReceiveData(failed)
    \/ CloseConn

SpecSession == Init /\ [][NextSession]_vars

-----------------------------------------------------------------------------
(* What the user of the client types.  A line of input is the sequence of *)
(* its characters, each a one-character string.                           *)

Digits == <<"0", "1", "2", "3", "4", "5", "6", "7", "8", "9">>
IsDigit(c) == \E i \in 1..10 : Digits[i] = c
DigitValue(c) == (CHOOSE i \in 1..10 : Digits[i] = c) - 1

Letters ==
    {"a", "b", "c", "d", "e", "f", "g", "h", "i", "j", "k", "l", "m", "n",
     "o", "p", "q", "r", "s", "t", "u", "v", "w", "x", "y", "z",
     "A", "B", "C", "D", "E", "F", "G", "H", "I", "J", "K", "L", "M", "N",
     "O", "P", "Q", "R", "S", "T", "U", "V", "W", "X", "Y", "Z"}
\* \w and \W of the re module, on ASCII text
IsWord(c) == c \in Letters \/ IsDigit(c) \/ c = "_"
IsSpace(c) == c \in {" ", "\t"}

\* str.strip()
Strip(text) ==
    LET kept == {i \in 1..Len(text) : ~IsSpace(text[i])}
    IN IF kept = {} THEN <<>>
       ELSE SubSeq(text, CHOOSE i \in kept : \A j \in kept : i <= j,
                         CHOOSE i \in kept : \A j \in kept : j <= i)

(* A Python int: IntValue(v) when it lies in [-2^31, 2^31-1], and *)
(* BigValue(sign) when it lies beyond, below (-1) or above (1).   *)
IntValue(v) == [big |-> FALSE, val |-> v]
BigValue(sign) == [big |-> TRUE, val |-> sign]

\* the decimal digits of 2^31-1 and of 2^31
MaxDigits == <<2, 1, 4, 7, 4, 8, 3, 6, 4, 7>>
MinDigits == <<2, 1, 4, 7, 4, 8, 3, 6, 4, 8>>

\* d <= limit for two sequences of ten decimal digits
DigitsLE(d, limit) ==
    \/ d = limit
    \/ \E i \in 1..10 : d[i] < limit[i] /\ \A j \in 1..(i - 1) : d[j] = limit[j]

RECURSIVE Decimal(_, _, _, _)
\* acc extended by the digits d[i..], added when sign = 1 and subtracted when
\* sign = -1
Decimal(d, i, acc, sign) ==
    IF i > Len(d) THEN acc
    ELSE Decimal(d, i + 1, acc * 10 + sign * d[i], sign)

\* the int with the given sign and decimal digits (as values 0..9)
IntOfDigits(negative, d) ==
    LET nonzero == {i \in 1..Len(d) : d[i] # 0}
        sig == IF nonzero = {} THEN <<>>
               ELSE SubSeq(d, CHOOSE i \in nonzero : \A j \in nonzero : i <= j,
                           Len(d))
        fits == \/ Len(sig) < 10
                \/ Len(sig) = 10
                   /\ DigitsLE(sig, IF negative THEN MinDigits ELSE MaxDigits)
    IN IF fits THEN IntValue(Decimal(sig, 1, 0, IF negative THEN -1 ELSE 1))
       ELSE BigValue(IF negative THEN -1 ELSE 1)

\* int(text) of a str: surrounding whitespace, an optional sign, decimal
\* digits with single underscores between them; ValueError otherwise
int(text) ==
    LET t == Strip(text)
        signed == t # <<>> /\ t[1] \in {"+", "-"}
        body == IF signed THEN SubSeq(t, 2, Len(t)) ELSE t
        valid ==
            /\ body # <<>>
            /\ \A i \in 1..Len(body) :
                  \/ IsDigit(body[i])
                  \/ /\ body[i] = "_" /\ 1 < i /\ i < Len(body)
                     /\ IsDigit(body[i - 1]) /\ IsDigit(body[i + 1])
        digits == SelectSeq(body, IsDigit)
    IN IF ~valid THEN Raised("ValueError")
       ELSE IntOfDigits(signed /\ t[1] = "-",
                        [i \in 1..Len(digits) |-> DigitValue(digits[i])])

\* IsPrimeCommandOf without the range check of __init__
IsPrimeCommandOfUnchecked(n) == [name |-> "isprime", n |-> n.val]

\* IsPrimeCommand(n) for a Python int n: `MIN_ALLOWED <= n <= MAX_ALLOWED`
\* fails for the ints beyond the range
IsPrimeCommandOf(n) ==
    IF n.big THEN Raised("OverflowError") ELSE IsPrimeCommand(n.val)

\* ClientMode(int(mode)): 1, 2 or 3, or 0 when ValueError is raised
ClientMode(text) ==
    LET value == int(text)
    IN IF value = Raised("ValueError") THEN 0
       ELSE IF value.big \/ value.val \notin {1, 2, 3} THEN 0
       ELSE value.val

GENERATE_NUMBERS == 1
ENTER_NUMBERS == 2
ENTER_COMMANDS == 3

(* the regular expressions of _commands_generator *)

\* the first index at or after i where text has a character in/not in \W
\* (Len(text) + 1 when there is none)
EndOfNonWord(text, i) ==
    LET words == {j \in i..Len(text) : IsWord(text[j])}
    IN IF words = {} THEN Len(text) + 1
       ELSE CHOOSE j \in words : \A k \in words : j <= k
EndOfDigits(text, i) ==
    LET others == {j \in i..Len(text) : ~IsDigit(text[j])}
    IN IF others = {} THEN Len(text) + 1
       ELSE CHOOSE j \in others : \A k \in others : j <= k

\* text as a sequence of characters
CharsWho == <<"w", "h", "o">>
CharsIsPrime == <<"i", "s", "p", "r", "i", "m", "e">>
CharsFinishSession ==
    <<"f", "i", "n", "i", "s", "h", "s", "e", "s", "s", "i", "o", "n">>

\* re.match(r'^name\W*\(\W*\)$', command): after the name every character is
\* in \W, the last is ")" and a "(" stands before it
MatchCall(name, command) ==
    LET k == Len(name)
    IN /\ Len(command) >= k + 2
       /\ SubSeq(command, 1, k) = name
       /\ EndOfNonWord(command, k + 1) = Len(command) + 1
       /\ command[Len(command)] = ")"
       /\ \E i \in (k + 1)..(Len(command) - 1) : command[i] = "("

\* re.match(r'isprime\W*\(\W*(-?\d+)\W*\)', command): whether it matches, and
\* group(1).  Both \W* are greedy and \W holds "-", so the second one takes
\* a "-" before the digits and the group is the digits alone.
MatchIsPrime(command) ==
    LET k == Len(CharsIsPrime)
        first == EndOfNonWord(command, k + 1)
        after == EndOfDigits(command, first)
        close == EndOfNonWord(command, after)
        matched ==
            /\ Len(command) > k
            /\ SubSeq(command, 1, k) = CharsIsPrime
            /\ \E i \in (k + 1)..(first - 1) : command[i] = "("
            /\ after > first
            /\ \E i \in after..(close - 1) : command[i] = ")"
    IN [matched |-> matched,
        group |-> IF matched THEN SubSeq(command, first, after - 1) ELSE <<>>]

\* one turn of the loop of _commands_generator on the line typed: the
\* command yielded, NoneValue after 'Unrecognized command!', the exception
\* raised, or "stop" on an empty line
CommandOfLine(line) ==
    LET command == Strip(line)
    IN IF command = <<>> THEN [name |-> "stop"]
       ELSE IF MatchCall(CharsWho, command) THEN WhoCommand(NoAuthor)
       ELSE IF MatchIsPrime(command).matched
            THEN IsPrimeCommandOf(int(MatchIsPrime(command).group))
       ELSE IF MatchCall(CharsFinishSession, command) THEN FinishSessionCommand
       ELSE NoneValue

-----------------------------------------------------------------------------
(* The client process: _run_client, CommandClient.run and its modes *)

\* the lines a user types at the prompt of _choose_mode
ModeLines == {<<"1">>, <<"2">>, <<"3">>, <<"4">>, <<"x">>, <<>>}
\* the lines a user types at the prompt of _input_numbers_generator: 5, 4,
\* 2^31, -2^31-1, x and the empty line
NumberLines ==
    {<<"5">>, <<"4">>, <<"2", "1", "4", "7", "4", "8", "3", "6", "4", "8">>,
     <<"-", "2", "1", "4", "7", "4", "8", "3", "6", "4", "9">>, <<"x">>, <<>>}
\* the numbers random.randint gives in the model
RandomNumbers == {MIN_ALLOWED, 4, 5}
\* the lines a user types at the prompt of _commands_generator
CommandLines ==
    {<<"w", "h", "o", "(", ")">>,
     <<"i", "s", "p", "r", "i", "m", "e", "(", "5", ")">>,
     <<"i", "s", "p", "r", "i", "m", "e", "(",
       "2", "1", "4", "7", "4", "8", "3", "6", "4", "8", ")">>,
     <<"f", "i", "n", "i", "s", "h", "s", "e", "s", "s", "i", "o", "n",
       "(", ")">>,
     <<"h", "i">>, <<>>}

\* the positions in which the client waits for a message
Awaiting == {"author", "isprime", "finish", "raw"}

\* the n of the _recv(n) the client stands in
CWanted ==
    CASE creceiving = "header" -> MESSAGE_HEADER_SIZE_LENGTH
      [] creceiving = "name" -> cheader_length - MESSAGE_HEADER_SIZE_LENGTH
      [] creceiving = "data" -> DataLength(ccommand_type)
      [] OTHER -> 0

\* the server's end of the connection is closed
ConnClosed == conns > 0 /\ pc \notin Handling /\ pc # "exit"

\* SocketClient.__init__: connect returns once the server has the connection
ClientConnect ==
    /\ cpc = "unconnected"
    /\ peer = "open"
    /\ cpc' = "choose_mode"
    /\ csocket' = <<"connect">>
    /\ UNCHANGED <<creceiving, cbuffer, cheader_length, ccommand_type, cread,
                   mode, yielded, lines, number, output_file, stdout,
                   requests, responses, cexc>>
    /\ UNCHANGED <<server_vars, conn_vars, pure_vars>>

\* _send_command(command) followed by a _receive_message, standing at `at`.
\* failed: sendall raises because the server has closed the connection.
Send(command, failed, at) ==
    IF failed
    THEN /\ ConnClosed
         /\ cexc' = "OSError"
         /\ cpc' = "exit"
         /\ UNCHANGED <<wire, requests, creceiving>>
    ELSE /\ wire' = wire \o Message(command)
         /\ requests' = Append(requests, command)
         /\ cpc' = at
         /\ creceiving' = "header"
         /\ cexc' = cexc

\* _choose_mode: one line typed at its prompt; for the number-filtering modes
\* _print_author then sends who()
ChooseMode(line, failed) ==
    /\ cpc = "choose_mode"
    /\ lines' = lines + 1
    /\ \E chosen \in {ClientMode(line)} :
       IF chosen = 0
       THEN /\ ~failed
            /\ stdout' = Append(stdout, "Incorrect input!")
            /\ UNCHANGED <<cpc, mode, wire, requests, creceiving, cexc>>
       ELSE /\ mode' = chosen
            /\ stdout' = stdout
            /\ IF chosen = ENTER_COMMANDS
               THEN /\ ~failed
                    /\ cpc' = "commands"
                    /\ UNCHANGED <<wire, requests, creceiving, cexc>>
               ELSE Send(WhoCommand(NoAuthor), failed, "author")
    /\ UNCHANGED <<cbuffer, cheader_length, ccommand_type, cread, yielded,
                   number, output_file, responses, csocket>>
    /\ UNCHANGED <<server_vars, peer, nmsgs, pure_vars>>

\* the loop body of _filter_primes for the number n
FilterNumber(n, failed) ==
    /\ number' = n
    /\ IF IsPrimeCommandOf(n).name = "raise"
       THEN /\ ~failed
            /\ stdout' = Append(stdout, "is too big")
            /\ UNCHANGED <<cpc, wire, requests, creceiving, cexc>>
       ELSE /\ stdout' = stdout
            /\ Send(IsPrimeCommandOf(n), failed, "isprime")

\* FinishSession with _filter_primes_mode returning without _finish_session
FinishSessionSkipped(failed) ==
    /\ ~failed
    /\ cpc' = "exit"
    /\ UNCHANGED <<wire, requests, creceiving, cexc, number, stdout>>

\* the generator is exhausted: the output file is closed and _finish_session
\* sends finishsession()
FinishSession(failed) ==
    /\ Send(FinishSessionCommand, failed, "finish")
    /\ UNCHANGED <<number, stdout>>

\* _random_numbers_generator yields v
GenerateNumber(v, failed) ==
    /\ cpc = "numbers"
    /\ mode = GENERATE_NUMBERS
    /\ yielded < RandomCount
    /\ yielded' = yielded + 1
    /\ FilterNumber(IntValue(v), failed)
    /\ UNCHANGED <<cbuffer, cheader_length, ccommand_type, cread, mode, lines,
                   output_file, responses, csocket>>
    /\ UNCHANGED <<server_vars, peer, nmsgs, pure_vars>>

\* _random_numbers_generator returns
GeneratorDone(failed) ==
    /\ cpc = "numbers"
    /\ mode = GENERATE_NUMBERS
    /\ yielded = RandomCount
    /\ FinishSession(failed)
    /\ UNCHANGED <<cbuffer, cheader_length, ccommand_type, cread, mode, lines,
                   yielded, output_file, responses, csocket>>
    /\ UNCHANGED <<server_vars, peer, nmsgs, pure_vars>>

\* _input_numbers_generator: one line typed at its prompt
EnterNumber(line, failed) ==
    /\ cpc = "numbers"
    /\ mode = ENTER_NUMBERS
    /\ lines' = lines + 1
    /\ \E n \in {int(line)} :
       IF line = <<>> THEN FinishSession(failed)
       ELSE IF n = Raised("ValueError")
       THEN /\ ~failed
            /\ stdout' = Append(stdout, "Wrong input. Number expected")
            /\ UNCHANGED <<cpc, number, wire, requests, creceiving, cexc>>
       ELSE FilterNumber(n, failed)
    /\ UNCHANGED <<cbuffer, cheader_length, ccommand_type, cread, mode,
                   yielded, output_file, responses, csocket>>
    /\ UNCHANGED <<server_vars, peer, nmsgs, pure_vars>>

\* _commands_generator: one line typed at its prompt; _enter_commands_mode
\* sends the command it yields
EnterCommand(line, failed) ==
    /\ cpc = "commands"
    /\ lines' = lines + 1
    /\ \E command \in {CommandOfLine(line)} :
          CASE command.name = "stop" ->
                 /\ ~failed
                 /\ cpc' = "exit"
                 /\ UNCHANGED <<stdout, wire, requests, creceiving, cexc>>
            [] command.name = "None" ->
                 /\ ~failed
                 /\ stdout' = Append(stdout, "Unrecognized command!")
                 /\ UNCHANGED <<cpc, wire, requests, creceiving, cexc>>
            [] command.name = "raise" ->
                 /\ ~failed
                 /\ cpc' = "exit"
                 /\ cexc' = command.exc
                 /\ UNCHANGED <<stdout, wire, requests, creceiving>>
            [] OTHER ->
                 /\ stdout' = stdout
                 /\ Send(command, failed, "raw")
    /\ UNCHANGED <<cbuffer, cheader_length, ccommand_type, cread, mode,
                   yielded, number, output_file, responses, csocket>>
    /\ UNCHANGED <<server_vars, peer, nmsgs, pure_vars>>

\* CommandClient._recv: recv returns the k bytes the server has written
ClientSockRecv(k) ==
    /\ cpc \in Awaiting
    /\ Len(cbuffer) < CWanted
    /\ k \in 1..Min(Len(sent) - cread, RECV_BUFFER_SIZE)
    /\ cbuffer' = cbuffer \o SubSeq(sent, cread + 1, cread + k)
    /\ cread' = cread + k
    /\ UNCHANGED <<cpc, creceiving, cheader_length, ccommand_type, mode,
                   yielded, lines, number, output_file, stdout, requests,
                   responses, cexc, csocket>>
    /\ UNCHANGED <<server_vars, conn_vars, pure_vars>>

\* CommandClient._recv: recv returns b'' and ConnectionBrokenError leaves run
ClientRecvBroken ==
    /\ cpc \in Awaiting
    /\ Len(cbuffer) < CWanted
    /\ cread = Len(sent)
    /\ ConnClosed
    /\ cpc' = "exit"
    /\ cexc' = "ConnectionBrokenError"
    /\ UNCHANGED <<creceiving, cbuffer, cheader_length, ccommand_type, cread,
                   mode, yielded, lines, number, output_file, stdout,
                   requests, responses, csocket>>
    /\ UNCHANGED <<server_vars, conn_vars, pure_vars>>

\* what the caller of _receive_message / _receive_command does with the
\* command (or None) it returns
Deliver(command) ==
    /\ responses' = Append(responses, command)
    /\ creceiving' = "idle"
    /\ CASE cpc = "author" ->
              IF command.name # "who"
              THEN /\ cpc' = "exit" /\ cexc' = "TypeError"
                   /\ UNCHANGED <<stdout, output_file>>
              ELSE /\ cpc' = "numbers" /\ cexc' = cexc
                   /\ stdout' = Append(stdout, "Author is")
                   /\ output_file' = <<>>
         [] cpc = "isprime" ->
              /\ cpc' = "numbers" /\ cexc' = cexc
              /\ IF command.name # "bool" THEN UNCHANGED <<stdout, output_file>>
                 ELSE IF command.value
                 THEN /\ stdout' = Append(stdout, "is prime")
                      /\ output_file' = Append(output_file, number.val)
                 ELSE /\ stdout' = Append(stdout, "is not prime")
                      /\ output_file' = output_file
         [] cpc = "finish" ->
              /\ cpc' = "exit"
              /\ output_file' = output_file
              /\ IF command.name # "stats"
                 THEN cexc' = "TypeError" /\ stdout' = stdout
                 ELSE cexc' = cexc /\ stdout' = Append(stdout, "Stats:")
         [] cpc = "raw" ->
              /\ cpc' = "commands" /\ cexc' = cexc
              /\ stdout' = Append(stdout, "Server responded with")
              /\ output_file' = output_file

\* CommandClient._receive_message: the header byte; a header of 1 returns None
ClientHeader ==
    /\ cpc \in Awaiting
    /\ creceiving = "header"
    /\ Len(cbuffer) >= CWanted
    /\ LET cut == SliceCut(cbuffer, CWanted)
           header_length_ == Take(cbuffer, cut)[1]
       IN /\ cbuffer' = Drop(cbuffer, cut)
          /\ cheader_length' = header_length_
          /\ IF header_length_ = MESSAGE_HEADER_SIZE_LENGTH
             THEN Deliver(NoneValue)
             ELSE /\ creceiving' = "name"
                  /\ UNCHANGED <<cpc, cexc, stdout, output_file, responses>>
    /\ UNCHANGED <<ccommand_type, cread, mode, yielded, lines, number,
                   requests, csocket>>
    /\ UNCHANGED <<server_vars, conn_vars, pure_vars>>

\* CommandClient._receive_message: the name and its lookup;
\* UnrecognizedCommandError leaves run
ClientName ==
    /\ cpc \in Awaiting
    /\ creceiving = "name"
    /\ Len(cbuffer) >= CWanted
    /\ LET cut == SliceCut(cbuffer, CWanted)
           command_name == Utf8Decode(Take(cbuffer, cut))
       IN /\ cbuffer' = Drop(cbuffer, cut)
          /\ IF command_name = UnicodeDecodeError
                \/ command_name \notin client_decode_table
             THEN /\ cpc' = "exit"
                  /\ cexc' = "UnrecognizedCommandError"
                  /\ UNCHANGED <<creceiving, ccommand_type>>
             ELSE /\ creceiving' = "data"
                  /\ ccommand_type' = command_name
                  /\ UNCHANGED <<cpc, cexc>>
    /\ UNCHANGED <<cheader_length, cread, mode, yielded, lines, number,
                   output_file, stdout, requests, responses, csocket>>
    /\ UNCHANGED <<server_vars, conn_vars, pure_vars>>

\* CommandClient._receive_message: the payload and from_bytes, whose
\* exception leaves run; then the caller takes the command
ClientData ==
    /\ cpc \in Awaiting
    /\ creceiving = "data"
    /\ Len(cbuffer) >= CWanted
    /\ \E cut \in {SliceCut(cbuffer, CWanted)} :
       \E command \in {ClientFromBytes(ccommand_type, Take(cbuffer, cut))} :
          /\ cbuffer' = Drop(cbuffer, cut)
          /\ IF command.name = "raise"
             THEN /\ cpc' = "exit"
                  /\ cexc' = command.exc
                  /\ UNCHANGED <<creceiving, stdout, output_file, responses>>
             ELSE Deliver(command)
    /\ UNCHANGED <<cheader_length, ccommand_type, cread, mode, yielded, lines,
                   number, requests, csocket>>
    /\ UNCHANGED <<server_vars, conn_vars, pure_vars>>

\* the user presses Ctrl-C while run is executing:
\* suppress(KeyboardInterrupt) ends run
ClientInterrupt ==
    /\ cpc \in Awaiting \cup {"choose_mode", "numbers", "commands"}
    /\ cpc' = "exit"
    /\ cexc' = "KeyboardInterrupt"
    /\ UNCHANGED <<creceiving, cbuffer, cheader_length, ccommand_type, cread,
                   mode, yielded, lines, number, output_file, stdout,
                   requests, responses, csocket>>
    /\ UNCHANGED <<server_vars, conn_vars, pure_vars>>

\* SocketClient.__init__: connect raises and the process ends with the socket
\* it created
ConnectFails ==
    /\ cpc = "unconnected"
    /\ cpc' = "closed"
    /\ cexc' = "OSError"
    /\ csocket' = <<"connect">>
    /\ UNCHANGED <<creceiving, cbuffer, cheader_length, ccommand_type, cread,
                   mode, yielded, lines, number, output_file, stdout,
                   requests, responses>>
    /\ UNCHANGED <<server_vars, conn_vars, pure_vars>>

\* _run_client: the `with` ends, SocketClient.__exit__ closes the socket and
\* the process ends
ClientExit ==
    /\ cpc = "exit"
    /\ cpc' = "closed"
    /\ csocket' = Append(csocket, "close")
    /\ peer' = IF peer = "open" THEN "closed" ELSE peer
    /\ UNCHANGED <<creceiving, cbuffer, cheader_length, ccommand_type, cread,
                   mode, yielded, lines, number, output_file, stdout,
                   requests, responses, cexc>>
    /\ UNCHANGED <<server_vars, wire, nmsgs, pure_vars>>

\* the client and the server on one connection
NextClient ==
    \/ conns = 0 /\ Accept
    \/ ClientConnect
    \/ \E line \in ModeLines : \E failed \in BOOLEAN :
           ChooseMode(line, failed) /\ (lines < MaxLines \/ ClientMode(line) # 0)
    \/ \E v \in RandomNumbers : \E failed \in BOOLEAN : GenerateNumber(v, failed)
    \/ \E failed \in BOOLEAN : GeneratorDone(failed)
    \/ \E line \in NumberLines : \E failed \in BOOLEAN :
           EnterNumber(line, failed) /\ (lines < MaxLines \/ line = <<>>)
    \/ \E line \in CommandLines : \E failed \in BOOLEAN :
           EnterCommand(line, failed) /\ (lines < MaxLines \/ line = <<>>)
    \/ ClientSockRecv(Min(Len(sent) - cread, RECV_BUFFER_SIZE))
    \/ ClientRecvBroken
    \/ ClientHeader
    \/ ClientName
    \/ ClientData
    \/ ClientExit
    \/ SockRecv(Min(Len(wire), RECV_BUFFER_SIZE))
    \/ RecvBroken
    \/ ReceiveHeader
    \/ ReceiveName
    \/ \E failed \in BOOLEAN : ReceiveData(failed)
    \/ CloseConn

SpecClient == Init /\ [][NextClient]_vars

\* the client process with its other ways to end: interrupted, or never
\* connected
NextProcess ==
    \/ NextClient
    \/ ClientInterrupt
    \/ ConnectFails

SpecProcess == Init /\ [][NextProcess]_vars

\* both processes run straight-line code between their blocking calls, a
\* reliable stream delivers what was written, and the user answers a prompt
FairSpecClient == SpecClient /\ WF_vars(NextClient)

(* The client against a server that answers anything *)

\* bool with a payload byte of 2
BadBoolMessage == <<5>> \o BoolName \o <<2>>

\* what the other end writes in reply: who, bool(1), bool(0), stats, the
\* empty message, isprime (a name the client's registry does not hold), and
\* bool with the payload 2
Replies ==
    {Message(WhoCommand(Author(AUTHOR))), Message(BoolCommand(TRUE)),
     Message(BoolCommand(FALSE)), Message(StatsCommand(1, 1, 5, 5)),
     EmptyMessage, Message(IsPrimeCommand(2)), BadBoolMessage}

\* the other end writes m in reply to the request the client waits on
Reply(m) ==
    /\ cpc \in Awaiting
    /\ creceiving = "header"
    /\ cbuffer = <<>>
    /\ cread = Len(sent)
    /\ sent' = sent \o m
    /\ UNCHANGED <<pc, session_data, buffer, header_length, command_type,
                   response_command, outcome, executed, splits, conns,
                   leftover>>
    /\ UNCHANGED <<conn_vars, client_vars, pure_vars>>

\* the client is started with some server listening; its number-filtering
\* modes run against it
InitReply == ServerInit /\ peer = "open" /\ ClientInit /\ PureInit

NextReply ==
    \/ ClientConnect
    \/ \E line \in ModeLines : \E failed \in BOOLEAN :
           ChooseMode(line, failed) /\ (lines < MaxLines \/ ClientMode(line) # 0)
    \/ \E v \in RandomNumbers : \E failed \in BOOLEAN : GenerateNumber(v, failed)
    \/ \E failed \in BOOLEAN : GeneratorDone(failed)
    \/ \E line \in NumberLines : \E failed \in BOOLEAN :
           EnterNumber(line, failed) /\ (lines < MaxLines \/ line = <<>>)
    \/ \E m \in Replies : Reply(m)
    \/ ClientSockRecv(Min(Len(sent) - cread, RECV_BUFFER_SIZE))
    \/ ClientHeader
    \/ ClientName
    \/ ClientData
    \/ ClientExit

SpecReply == InitReply /\ [][NextReply]_vars

-----------------------------------------------------------------------------
(* The methods of the command classes, applied to given arguments *)

\* numbers at the ends of the isprime domain: -2^31, 2^31-1 and 2^31-19
\* (primes), 2^31-2, and the squares of 46337 (a prime) and of 46340
LargeNumbers ==
    {MIN_ALLOWED, MAX_ALLOWED, 2147483629, 2147483646, 2147117569,
     2147395600}

\* the arguments _is_prime is applied to
PrimeInputs == (-MaxN..MaxN) \cup LargeNumbers

\* integers at the ends of the signed 32-bit range and around the byte
\* boundaries
CodecNumbers == {MIN_ALLOWED, -256, -1, 0, 1, 255, 256, MAX_ALLOWED}

\* the values each field of a stats command takes
StatsNumbers == {MIN_ALLOWED, -1, 0, MAX_ALLOWED}

\* an author of n characters, each the code point cp
Repeated(cp, n) == [i \in 1..n |-> cp]

\* author strings: ASCII, two-, three- and four-byte characters, a lone
\* surrogate, strings that fill the field exactly ("A" * 128, "\xe9" * 64),
\* strings one byte too long, the empty string and strings with U+0000 at
\* the start, inside and at the end
Authors ==
    {AUTHOR, <<88>>, <<233>>, <<8364>>, <<128169>>, <<55296>>,
     Repeated(65, WhoDataLength), Repeated(233, WhoDataLength \div 2),
     Repeated(65, WhoDataLength + 1),
     <<>>, <<0>>, <<0, 65>>, <<65, 0>>, <<65, 0, 66>>}

\* the commands encoded and decoded again
RoundTripCommands ==
    {IsPrimeCommand(n) : n \in CodecNumbers}
        \cup {BoolCommand(value) : value \in BOOLEAN}
        \cup {StatsCommand(a, b, c, d) : a \in StatsNumbers, b \in StatsNumbers,
                                        c \in StatsNumbers, d \in StatsNumbers}
        \cup {FinishSessionCommand, WhoCommand(NoAuthor)}
        \cup {WhoCommand(Author(s)) : s \in Authors}

\* the five command classes, by name
Classes == {"who", "bool", "isprime", "finishsession", "stats"}

\* payloads handed to from_bytes: of each class's data_length and shorter
\* and longer than it
Payloads ==
    {<<>>, <<0>>, <<1>>, <<2>>, <<5>>, <<65>>, <<255>>, <<1, 0>>, <<0, 1>>,
     <<5, 0, 0, 0>>, <<255, 255, 255, 255>>, <<5, 0, 0, 0, 0>>,
     <<0, 0, 0, 128, 0>>,
     Zeros(StatsDataLength - 1), Zeros(StatsDataLength),
     Zeros(StatsDataLength + 1),
     Repeated(65, WhoDataLength - 1), Repeated(65, WhoDataLength),
     Repeated(65, WhoDataLength + 1), Zeros(WhoDataLength)}

\* the decimal digits of m >= 0, as characters
TextOfNat(m) ==
    LET k == CHOOSE j \in 1..10 :
                 /\ j = 10 \/ m < 10 ^ j
                 /\ j = 1 \/ m >= 10 ^ (j - 1)
    IN [i \in 1..k |-> Digits[((m \div (10 ^ (k - i))) % 10) + 1]]

\* the text a user types for the integer n of [-2^31, 2^31-1]
TextOfInt(n) ==
    IF n = MIN_ALLOWED
    THEN <<"-">> \o [i \in 1..10 |-> Digits[MinDigits[i] + 1]]
    ELSE IF n < 0 THEN <<"-">> \o TextOfNat(-n)
    ELSE TextOfNat(n)

\* nothing or one blank
Pads == {<<>>, <<" ">>}

\* the integers typed inside isprime( )
TypedNumbers ==
    {MIN_ALLOWED, -2147483647, -MaxN, -5, -1, 0, 1, 5, MaxN, MAX_ALLOWED}

\* the lines typed at the prompt of _commands_generator, each with the
\* command the user means by it
TypedCommands ==
    {[line |-> CharsIsPrime \o a \o <<"(">> \o b \o TextOfInt(n) \o c
                  \o <<")">>,
      typed |-> IsPrimeCommand(n)] :
        n \in TypedNumbers, a \in Pads, b \in Pads, c \in Pads}
    \cup {[line |-> CharsWho \o a \o <<"(">> \o b \o <<")">>,
           typed |-> WhoCommand(NoAuthor)] : a \in Pads, b \in Pads}
    \cup {[line |-> CharsFinishSession \o a \o <<"(">> \o b \o <<")">>,
           typed |-> FinishSessionCommand] : a \in Pads, b \in Pads}

\* the applications evaluated
PureInputs ==
    {[function |-> "_is_prime", n |-> n] : n \in PrimeInputs}
        \cup {[function |-> "roundtrip", command |-> c] :
                 c \in RoundTripCommands}
        \cup {[function |-> "from_bytes", cls |-> cls, data_bytes |-> b] :
                 cls \in Classes, b \in Payloads}
        \cup {[function |-> "_commands_generator", line |-> t.line,
               typed |-> t.typed] : t \in TypedCommands}

\* IsPrimeCommand._is_prime(n)
ApplyIsPrime ==
    /\ input.function = "_is_prime"
    /\ output.function = "none"
    /\ output' = [function |-> "_is_prime", value |-> _is_prime(input.n)]
    /\ UNCHANGED <<input, server_vars, conn_vars, client_vars>>

\* type(command).from_bytes(command.to_bytes())
RoundTrip ==
    /\ input.function = "roundtrip"
    /\ output.function = "none"
    /\ \E encoded \in {ToBytes(input.command)} :
          output' = [function |-> "roundtrip",
                     encoded |-> encoded,
                     decoded |-> IF encoded.exc # "" THEN Raised(encoded.exc)
                                 ELSE from_bytes(input.command.name,
                                                 encoded.bytes)]
    /\ UNCHANGED <<input, server_vars, conn_vars, client_vars>>

\* cls.from_bytes(data_bytes)
Decode ==
    /\ input.function = "from_bytes"
    /\ output.function = "none"
    /\ output' = [function |-> "from_bytes",
                  value |-> from_bytes(input.cls, input.data_bytes)]
    /\ UNCHANGED <<input, server_vars, conn_vars, client_vars>>

\* one turn of _commands_generator on the line typed
ParseCommand ==
    /\ input.function = "_commands_generator"
    /\ output.function = "none"
    /\ output' = [function |-> "_commands_generator",
                  value |-> CommandOfLine(input.line)]
    /\ UNCHANGED <<input, server_vars, conn_vars, client_vars>>

InitPure ==
    /\ ServerInit /\ peer = "none" /\ ClientInit
    /\ input \in PureInputs
    /\ output = [function |-> "none"]

NextPure ==
    \/ ApplyIsPrime
    \/ RoundTrip
    \/ Decode
    \/ ParseCommand

SpecPure == InitPure /\ [][NextPure]_vars

-----------------------------------------------------------------------------
(* The server reading one given byte stream, split by the transport *)

\* a stats message whose 16 payload bytes are b'\x08isprime', the int 5 and
\* four bytes 1
CraftedStats == StatsCommand(1886611720, 1701669234, 5, 16843009)

\* the messages a stream is made of
StreamMessages ==
    {Message(WhoCommand(NoAuthor)), Message(IsPrimeCommand(5)),
     Message(FinishSessionCommand), Message(BoolCommand(TRUE)),
     Message(CraftedStats), EmptyMessage, ZeroHeader}

\* the streams a peer sends: up to MaxStream messages one after the other
StreamInputs ==
    {[function |-> "stream", messages |-> ms] :
        ms \in UNION {[1..k -> StreamMessages] : k \in 1..MaxStream}}

RECURSIVE Flatten(_)
\* the bytes of the messages ms, in order
Flatten(ms) == IF ms = <<>> THEN <<>> ELSE Head(ms) \o Flatten(Tail(ms))

\* the peer writes its whole stream; the transport delivers it in the chunks
\* SockRecv takes
PeerSendAll ==
    /\ input.function = "stream"
    /\ nmsgs = 0
    /\ PeerSend(Flatten(input.messages))

InitStream ==
    /\ ServerInit /\ peer = "none" /\ ClientInit
    /\ input \in StreamInputs
    /\ output = [function |-> "none"]

NextStream ==
    \/ conns = 0 /\ Accept
    \/ PeerSendAll
    \/ SockRecv(Min(Len(wire), RECV_BUFFER_SIZE))
    \/ splits < MaxSplits /\ \E k \in ShortReads :
           k < Min(Len(wire), RECV_BUFFER_SIZE) /\ SockRecv(k)
    \/ ReceiveHeader
    \/ ReceiveName
    \/ \E failed \in BOOLEAN : ReceiveData(failed)
    \/ CloseConn

SpecStream == InitStream /\ [][NextStream]_vars

-----------------------------------------------------------------------------
(* Properties *)

Last(s) == s[Len(s)]

\* the server stands at the payload of a message and this step decodes it
\* (and, unless from_bytes raises, executes it and sends the response)
DataStep == pc = "data" /\ Len(buffer) >= Wanted /\ pc' # pc

\* the command DataStep decodes
Incoming == FromBytes(command_type, Take(buffer, SliceCut(buffer, Wanted)))

\* the numbers of the isprime commands in a history
NumbersOf(history) ==
    LET isprimes == SelectSeq(history, LAMBDA c : c.name = "isprime")
    IN [i \in 1..Len(isprimes) |-> isprimes[i].n]

\* primality as mathematics has it
IsPrimeNumber(n) == n > 1 /\ \A d \in 2..(n - 1) : n % d # 0

SeqMin(ns) == CHOOSE x \in {ns[i] : i \in 1..Len(ns)} :
                  \A i \in 1..Len(ns) : x <= ns[i]
SeqMax(ns) == CHOOSE x \in {ns[i] : i \in 1..Len(ns)} :
                  \A i \in 1..Len(ns) : x >= ns[i]

\* the stats a session that executed the numbers ns must report
ExpectedStats(ns) ==
    StatsCommand(Len(ns),
                 Cardinality({i \in 1..Len(ns) : IsPrimeNumber(ns[i])}),
                 SeqMin(ns), SeqMax(ns))

IsSuffix(t, s) ==
    Len(t) <= Len(s) /\ SubSeq(s, Len(s) - Len(t) + 1, Len(s)) = t

\* C1: after isprime(n_1..n_k), k >= 1, interleaved with who(), the stats
\* returned by finishsession carry k, the number of primes among the n_i,
\* their minimum and their maximum; when the session returned, that stats
\* message is the last thing written to the connection.
C1_StatsOfSession ==
    LET ns == NumbersOf(executed)
    IN (executed # <<>> /\ Last(executed).name = "finishsession" /\ ns # <<>>)
       => /\ response_command = ExpectedStats(ns)
          /\ outcome = "returned" => IsSuffix(Message(ExpectedStats(ns)), sent)

\* C1 witness: 2, 3, 4, 5 then finishsession returned stats(4, 3, 2, 5)
C1_Witness ==
    /\ NumbersOf(executed) = <<2, 3, 4, 5>>
    /\ response_command = StatsCommand(4, 3, 2, 5)
    /\ outcome = "returned"

\* C2: the session loop ends only because finishsession was executed or
\* because the connection broke (a read from a closed stream; a write to a
\* peer that has closed is counted with it).
C2_OnlyTwoEnds ==
    pc = "exit" =>
        \/ /\ outcome = "returned"
           /\ executed # <<>> /\ Last(executed).name = "finishsession"
        \/ outcome \in {"ConnectionBrokenError", "OSError"}

\* C3: executing a who that carries an author changes no field of the
\* session data and leaves the session running, at the next header.
C3_WhoWithAuthorAccepted ==
    [][(DataStep /\ Incoming.name = "who" /\ Truthy(Incoming.author))
       => (session_data' = session_data /\ pc' = "header")]_vars

\* C4: executing who with no author returns who(author of the session) and
\* changes no field of the session data.
C4_WhoReturnsAuthor ==
    [][(DataStep /\ Incoming = WhoCommand(NoAuthor))
       => /\ response_command' = WhoCommand(Author(session_data.author))
          /\ session_data' = session_data]_vars

\* C4 witness: who() answered with the configured author in a session that
\* has already counted a number
C4_Witness ==
    /\ executed # <<>> /\ Last(executed) = WhoCommand(NoAuthor)
    /\ response_command = WhoCommand(Author(AUTHOR))
    /\ session_data.numbers_cnt > 0
    /\ IsSuffix(Message(WhoCommand(Author(AUTHOR))), sent)

\* C5: reading a header byte of 1 consumes that byte and no other, executes
\* nothing, changes no session data, writes nothing, and leaves the server
\* at the next header.
C5_EmptyMessageSkipped ==
    [][(pc = "header" /\ buffer # <<>> /\ Head(buffer) = 1 /\ buffer' # buffer)
       => /\ buffer' = Tail(buffer)
          /\ pc' = "header"
          /\ UNCHANGED <<session_data, executed, response_command, sent,
                         wire>>]_vars

\* C5 witness: an empty message was read and the message the peer sent
\* behind it is in the buffer, untouched
C5_Witness ==
    /\ pc = "header" /\ header_length = 1
    /\ buffer = Message(IsPrimeCommand(2))
    /\ executed = <<>> /\ sent = <<>>

\* C6: executing finishsession clears session_running, keeps the four
\* counters, returns stats of the counters and ends the loop; from then on
\* nothing is executed, read or written on that connection, whatever is in
\* the buffer, until run accepts the next connection.
C6_FinishSessionTerminal ==
    [][/\ (DataStep /\ Incoming.name = "finishsession")
          => /\ session_data' =
                    [session_data EXCEPT !.session_running = FALSE]
             /\ response_command' =
                    StatsCommand(session_data.numbers_cnt,
                                 session_data.primes_cnt,
                                 session_data.min_value,
                                 session_data.max_value)
             /\ sent' \in {sent, sent \o Message(response_command')}
             /\ pc' = "exit"
       /\ ~session_data.session_running
          => \/ conns' = conns + 1
             \/ UNCHANGED <<session_data, executed, response_command, buffer,
                            sent>>]_vars

\* C6 witness: the session is finished, its stats were written and the
\* connection is closed while bytes the peer sent after finishsession are
\* still in the buffer
C6_Witness ==
    /\ ~session_data.session_running
    /\ pc = "accept"
    /\ buffer # <<>>
    /\ response_command.name = "stats"
    /\ IsSuffix(Message(response_command), sent)

\* the server stands at the name of a message and this step reads it
NameStep == pc = "name" /\ Len(buffer) >= Wanted /\ pc' # pc

\* the name NameStep decodes
IncomingName == Utf8Decode(Take(buffer, SliceCut(buffer, Wanted)))

C8_BadPayloadSkipped ==
    [][(DataStep /\ Incoming.name = "raise")
       => (pc' = "header" /\ session_data' = session_data)]_vars

\* C9: a read that finds the stream closed inside a message (in the name or
\* in the payload) raises ConnectionBrokenError out of handle_connection
\* with nothing executed, changed or written, and run goes back to accept.
C9_BrokenMidMessage ==
    [][/\ (/\ pc \in {"name", "data"}
           /\ Len(buffer) < Wanted /\ wire = <<>> /\ peer = "closed"
           /\ pc' # pc)
          => /\ pc' = "exit"
             /\ outcome' = "ConnectionBrokenError"
             /\ UNCHANGED <<session_data, executed, response_command, sent>>
       /\ (pc = "exit" /\ outcome = "ConnectionBrokenError" /\ pc' # pc)
          => pc' = "accept"]_vars

\* C9 witness: after one executed command the peer closed inside the next
\* message, whose first bytes are in the buffer; the server is back at accept
C9_Witness ==
    /\ pc = "accept"
    /\ outcome = "ConnectionBrokenError"
    /\ buffer # <<>>
    /\ Len(executed) = 1

\* C10: run never ends because of a failure in handle_connection, and after
\* handle_connection has ended the connection is closed and run stands at
\* accept again.
C10_AcceptLoopSurvives ==
    /\ [](pc # "crashed")
    /\ (pc = "exit") ~> (pc = "accept" /\ peer = "none")

\* C10 witness: handle_connection ended with an exception other than
\* ConnectionBrokenError and run stands at accept, able to accept
C10_Witness ==
    /\ pc = "accept"
    /\ outcome \in {"AttributeError", "UnicodeDecodeError"}
    /\ peer = "none"
    /\ conns < MaxConns

-----------------------------------------------------------------------------
(* C11 *)

\* C11: every accepted connection starts from a fresh session: when accept
\* returns a connection, handle_connection stands at the first header with
\* the SessionData of the class defaults (running, no numbers, no primes,
\* min_value = 2^31-1, max_value = -2^31), an empty _buffer and nothing
\* written, whatever the connection before it left behind.
C11_FreshSession ==
    [][conns' # conns =>
          /\ pc' = "header"
          /\ session_data' = SessionData
          /\ session_data'.session_running
          /\ session_data'.numbers_cnt = 0 /\ session_data'.primes_cnt = 0
          /\ session_data'.min_value = MAX_ALLOWED
          /\ session_data'.max_value = MIN_ALLOWED
          /\ buffer' = <<>>
          /\ sent' = <<>> /\ executed' = <<>>]_vars

\* a second connection has just been accepted after one that ended with
\* counted numbers and unread bytes in _buffer
C11_Witness ==
    /\ conns = 2 /\ leftover /\ pc = "header"
    /\ session_data = SessionData /\ buffer = <<>> /\ wire = <<>>

-----------------------------------------------------------------------------
(* C12 *)

\* the user enters a number beyond [-2^31, 2^31-1] in the enter-numbers mode
TooBigNumberStep ==
    \E line \in NumberLines :
        /\ int(line) \in {BigValue(1), BigValue(-1)}
        /\ EnterNumber(line, FALSE)

\* the user enters isprime(n) with n beyond the range in the raw mode
TooBigCommandStep ==
    \E line \in CommandLines :
        /\ CommandOfLine(line) = Raised("OverflowError")
        /\ EnterCommand(line, FALSE)

\* C12: constructing isprime with n outside [-2^31, 2^31-1] raises
\* OverflowError before anything is encoded: the step writes no byte and
\* sends no command; in the number-filtering mode the client prints that
\* the number is too big, raises nothing, stands at the head of its loop
\* for the next number, and the server's session is untouched.
C12_OutOfRangeSkipped ==
    [][/\ (TooBigNumberStep \/ TooBigCommandStep)
           => wire' = wire /\ requests' = requests
       /\ TooBigNumberStep
           => /\ stdout' = Append(stdout, "is too big")
              /\ cpc' = "numbers" /\ cexc' = "" /\ creceiving' = "idle"
              /\ UNCHANGED <<server_vars, peer, output_file, responses>>]_vars

\* 2^31 was skipped and the next number, 5, was then answered in the same
\* session
C12_Witness ==
    /\ mode = ENTER_NUMBERS
    /\ stdout = <<"Author is", "is too big", "is prime">>
    /\ requests = <<WhoCommand(NoAuthor), IsPrimeCommand(5)>>
    /\ output_file = <<5>>
    /\ session_data.numbers_cnt = 1

-----------------------------------------------------------------------------
(* C13 *)

\* the user types a malformed line: a mode choice that is not 1, 2 or 3, a
\* number line that is not an integer, command text that matches no command,
\* or a raw isprime(n) with n beyond [-2^31, 2^31-1]
MalformedInputStep ==
    \/ \E line \in ModeLines :
           ClientMode(line) = 0 /\ ChooseMode(line, FALSE)
    \/ \E line \in NumberLines :
           line # <<>> /\ int(line) = Raised("ValueError")
           /\ EnterNumber(line, FALSE)
    \/ \E line \in CommandLines :
           CommandOfLine(line) \in {NoneValue, Raised("OverflowError")}
           /\ EnterCommand(line, FALSE)

\* C13: in every client mode a malformed line is reported (one line is
\* printed) and the client stands at the same prompt again, with no
\* exception leaving run: no such input terminates the client.
C13_MalformedInputReprompts ==
    [][MalformedInputStep
          => /\ cpc' = cpc /\ cexc' = ""
             /\ Len(stdout') = Len(stdout) + 1
             /\ wire' = wire /\ requests' = requests]_vars

-----------------------------------------------------------------------------
(* C14 *)

\* how many elements of the sequence s lie in the set S
Count(s, S) == Cardinality({i \in 1..Len(s) : s[i] \in S})

\* the name of the response this server gives to a request
ResponseName(request) ==
    CASE request.name = "who" -> "who"
      [] request.name = "isprime" -> "bool"
      [] request.name = "finishsession" -> "stats"

\* the exchange of a number-filtering run so far
FilterExchange ==
    \* who() first and only first, finishsession last and only last
    /\ \A i \in 1..Len(requests) :
          /\ (requests[i].name = "who") <=> (i = 1)
          /\ requests[i].name \in {"who", "isprime", "finishsession"}
          /\ requests[i].name = "finishsession"
                => i = Len(requests) /\ cpc \in {"finish", "exit", "closed"}
    \* one isprime per number in range: each was answered, or is the one
    \* outstanding
    /\ Count(requests, {IsPrimeCommand(n) : n \in RandomNumbers \cup {4, 5}})
          = Count(stdout, {"is prime", "is not prime"})
            + (IF cpc = "isprime" THEN 1 ELSE 0)
    \* request and response alternate: at most one request is outstanding,
    \* the client then waits, and nothing is in flight otherwise
    /\ Len(requests) - Len(responses) =
          (IF cpc \in Awaiting THEN 1 ELSE 0)
    /\ Len(requests) - Len(executed) \in {0, 1}
    /\ Len(executed) - Len(responses) \in {0, 1}
    /\ cpc \notin Awaiting => wire = <<>> /\ buffer = <<>> /\ cread = Len(sent)
    \* each response is the one to its request
    /\ \A i \in 1..Len(responses) :
          responses[i].name = ResponseName(requests[i])
    /\ \A i \in 1..Len(executed) : executed[i] = requests[i]
    /\ cexc = ""

\* the run is complete: the client has the stats and has ended, the server
\* session is finished and its connection closed
FilterComplete ==
    /\ cpc = "closed" /\ cexc = ""
    /\ requests # <<>> /\ requests[Len(requests)] = FinishSessionCommand
    /\ Len(responses) = Len(requests)
    /\ responses[Len(responses)].name = "stats"
    /\ ~session_data.session_running /\ outcome = "returned"
    /\ pc = "accept"

\* C14: in the generate and enter-numbers modes against this server the
\* exchange alternates request and response in the order who(), one
\* isprime(n) per number in range, one finishsession(), with at most one
\* request outstanding; and the run eventually completes: the client has
\* received stats and the server session is finished.
C14_AlternatingSession ==
    /\ [](mode \in {GENERATE_NUMBERS, ENTER_NUMBERS} => FilterExchange)
    /\ (mode \in {GENERATE_NUMBERS, ENTER_NUMBERS}) ~> FilterComplete

\* a complete run of the enter-numbers mode: 5, 2^31 (skipped) and 4
C14_Witness ==
    /\ FilterComplete
    /\ mode = ENTER_NUMBERS
    /\ requests = <<WhoCommand(NoAuthor), IsPrimeCommand(5),
                    IsPrimeCommand(4), FinishSessionCommand>>
    /\ responses = <<WhoCommand(Author(AUTHOR)), BoolCommand(TRUE),
                     BoolCommand(FALSE), StatsCommand(2, 1, 4, 5)>>
    /\ stdout = <<"Author is", "is prime", "is too big", "is not prime",
                  "Stats:">>

-----------------------------------------------------------------------------
(* C15 *)

\* the client takes a bool command as the reply to isprime(n)
BoolReplyStep ==
    /\ responses' # responses
    /\ responses'[Len(responses')].name = "bool"

\* C15: in the number-filtering modes, when the message received in reply
\* to isprime(n) is anything other than a bool command (a who, a stats, an
\* empty message, a name outside the client's registry, a bool with a
\* payload byte other than 0/1), the client skips that number and goes on
\* to the next one: nothing is written to the file and no exception leaves
\* run.
C15_UnexpectedReplySkipped ==
    [][cpc = "isprime" /\ cpc' # cpc /\ ~BoolReplyStep
          => cpc' = "numbers" /\ cexc' = "" /\ output_file' = output_file]_vars

-----------------------------------------------------------------------------
(* C16 *)

\* floor(sqrt(n)) for 1 <= n < 2^31, from its definition
FloorSqrt(n) ==
    CHOOSE s \in 1..46340 :
        s * s <= n /\ (s = 46340 \/ (s + 1) * (s + 1) > n)

\* C16: for every n in the isprime domain, _is_prime(n) is mathematical
\* primality: false for every n < 2, true for 2 and 3, false for 4, true
\* exactly when no d with 2 <= d <= floor(sqrt(n)) divides n; for n up to
\* MaxN that is: n > 1 has no divisor in 2..n-1; and 2^31-1 and 2^31-19 are
\* prime.
C16_IsPrimeIsPrimality ==
    output.function = "_is_prime" =>
        LET n == input.n
        IN /\ n < 2 => ~output.value
           /\ n \in {2, 3} => output.value
           /\ n = 4 => ~output.value
           /\ n >= 2 => (output.value <=>
                            \A d \in 2..FloorSqrt(n) : n % d # 0)
           /\ n <= MaxN => (output.value <=> IsPrimeNumber(n))
           /\ n \in {MAX_ALLOWED, 2147483629} => output.value
           /\ n \in {2147483646, 2147117569, 2147395600} => ~output.value

\* the square of the prime 46337, whose only divisor up to its square root
\* is the root itself, has been classified
C16_Witness ==
    /\ input = [function |-> "_is_prime", n |-> 2147117569]
    /\ output = [function |-> "_is_prime", value |-> FALSE]

\* C17 as stated: every command whose to_bytes() succeeds is given back by
\* from_bytes with the same field values, for each of the five classes and
\* for every author whose encoding fits the 128-byte field
C17_RoundTrip ==
    (output.function = "roundtrip" /\ output.encoded.exc = "")
        => output.decoded = input.command

\* an author that the zero padding cannot swallow: not empty, and U+0000
\* neither first nor last
KeepsItsEnds(author) ==
    /\ Truthy(author)
    /\ author.val[1] # 0
    /\ Last(author.val) # 0

\* C17 amended: decoding the encoded payload gives back the same field
\* values for isprime, bool, stats and finishsession, for who without an
\* author, and for who with a non-empty author that fits the field and
\* neither begins nor ends with U+0000
C17_RoundTripUnpadded ==
    (/\ output.function = "roundtrip"
     /\ output.encoded.exc = ""
     /\ input.command.name = "who" =>
            \/ input.command.author = NoAuthor
            \/ KeepsItsEnds(input.command.author))
        => /\ output.decoded = input.command
           /\ Len(output.encoded.bytes) = DataLength(CommandName(input.command))

\* C17 witness: an author of exactly 128 bytes has been encoded and decoded
C17_Witness ==
    /\ output.function = "roundtrip"
    /\ input.command = WhoCommand(Author(Repeated(65, WhoDataLength)))
    /\ output.encoded = Bytes(Repeated(65, WhoDataLength))
    /\ output.decoded = input.command

\* cls.data_length
ClassDataLength(cls) == DataLength(CommandName([name |-> cls]))

\* C18: from_bytes of any of the five classes, given a payload whose length
\* is not the class's data_length, raises and constructs no command
C18_WrongLengthRejected ==
    (/\ output.function = "from_bytes"
     /\ Len(input.data_bytes) # ClassDataLength(input.cls))
        => output.value.name = "raise"

\* the calls made on the client's socket
SocketCalls == {csocket[i] : i \in 1..Len(csocket)}

\* C19: when the client process has ended, by a normal return of run, by an
\* exception escaping run, by a keyboard interrupt or by a failure while
\* connecting, its socket has been both shut down and closed
C19_SocketReleased ==
    cpc = "closed" => {"shutdown", "close"} \subseteq SocketCalls

\* the response handle_connection wrote in this step is the one command r
AnswersWith(r) ==
    /\ r # NoneValue
    /\ sent' = sent \o Message(r)
    /\ CommandName(r) \in client_decode_table
    /\ Incoming.name = "isprime" => r \in {BoolCommand(FALSE), BoolCommand(TRUE)}
    /\ Incoming.name = "who" => r = WhoCommand(Author(session_data.author))
    /\ Incoming.name = "finishsession" => r.name = "stats"

\* C20: a step that decodes and executes a message writes exactly one
\* response, of the type the request fixes (bool for isprime, who(author)
\* for who, stats for finishsession) and of a name the client's registry
\* holds, unless the peer is gone and the write fails; a step that reads a
\* header or a name, where empty and unrecognized messages are skipped,
\* writes nothing
C20_OneResponsePerMessage ==
    [][/\ (DataStep /\ Incoming.name # "raise" /\ outcome' # "OSError")
          => AnswersWith(response_command')
       /\ (pc \in {"header", "name"} \/ (DataStep /\ Incoming.name = "raise"))
          => sent' = sent]_vars

\* C21: the line isprime(n), for n in [-2^31, 2^31-1] and with or without
\* blanks around the parentheses, is parsed into the isprime command carrying
\* that n, who() into who without author, finishsession() into finishsession
C21_RawCommandParsed ==
    output.function = "_commands_generator" => output.value = input.typed

\* the relations between the fields of one session's data
SessionDataConsistent(sd) ==
    /\ 0 <= sd.primes_cnt /\ sd.primes_cnt <= sd.numbers_cnt
    /\ sd.numbers_cnt = 0
          => sd.min_value = MAX_ALLOWED /\ sd.max_value = MIN_ALLOWED
    /\ sd.numbers_cnt >= 1
          => /\ MIN_ALLOWED <= sd.min_value
             /\ sd.min_value <= sd.max_value
             /\ sd.max_value <= MAX_ALLOWED

\* C22: in every reachable state 0 <= primes_cnt <= numbers_cnt, min_value
\* and max_value are 2^31-1 and -2^31 while no number was counted and
\* -2^31 <= min_value <= max_value <= 2^31-1 afterwards; and in the steps of
\* one session numbers_cnt, primes_cnt and max_value never decrease,
\* min_value never increases and session_running never turns true again
C22_SessionDataInvariant ==
    /\ []SessionDataConsistent(session_data)
    /\ [][conns' = conns
            => /\ session_data'.numbers_cnt >= session_data.numbers_cnt
               /\ session_data'.primes_cnt >= session_data.primes_cnt
               /\ session_data'.max_value >= session_data.max_value
               /\ session_data'.min_value <= session_data.min_value
               /\ session_data'.session_running
                     => session_data.session_running]_vars

\* C22 witness: a finished session that counted three numbers, two of them
\* prime, the least of them -2^31
C22_Witness ==
    /\ ~session_data.session_running
    /\ session_data.numbers_cnt = 3 /\ session_data.primes_cnt = 2
    /\ session_data.min_value = MIN_ALLOWED /\ session_data.max_value = 5

RECURSIVE ExactRun(_, _, _, _)
\* what handle_connection executes and writes on the bytes stream when every
\* read of n bytes takes exactly the next n bytes (none for n < 0) and waits
\* while fewer are there: done and written extended
ExactRun(stream, sd, done, written) ==
    LET stop == [executed |-> done, sent |-> written]
        n == Max(stream[1] - MESSAGE_HEADER_SIZE_LENGTH, 0)
        named == Drop(stream, MESSAGE_HEADER_SIZE_LENGTH)
        name == Utf8Decode(Take(named, n))
        rest == Drop(named, n)
        command == FromBytes(name, Take(rest, DataLength(name)))
        result == Call(command, sd)
        message == EncodeMessage(result.response)
    IN IF stream = <<>> THEN stop
       ELSE IF stream[1] = MESSAGE_HEADER_SIZE_LENGTH
            THEN ExactRun(named, sd, done, written)
       ELSE IF Len(named) < n THEN stop
       ELSE IF name = UnicodeDecodeError \/ name \notin commands_decode_table
            THEN ExactRun(rest, sd, done, written)
       ELSE IF Len(rest) < DataLength(name) THEN stop
       ELSE IF command.name = "raise" THEN stop
       ELSE IF message.exc # ""
            THEN [executed |-> Append(done, command), sent |-> written]
       ELSE IF ~result.sd.session_running
            THEN [executed |-> Append(done, command),
                  sent |-> written \o message.bytes]
       ELSE ExactRun(Drop(rest, DataLength(name)), result.sd,
                     Append(done, command), written \o message.bytes)

\* the server has taken the stream as far as it can: handle_connection has
\* ended, or it waits for bytes and none are left
StreamTaken ==
    /\ input.function = "stream"
    /\ nmsgs = 1
    /\ \/ pc \notin Handling
       \/ wire = <<>> /\ Len(buffer) < Wanted

\* C23: whatever chunks the transport delivers a stream in, the server
\* executes the commands and writes the responses that exact reads of the
\* stream give
C23_ChunkIndependent ==
    StreamTaken
        => \E run \in {ExactRun(Flatten(input.messages), SessionData,
                                <<>>, <<>>)} :
              executed = run.executed /\ sent = run.sent

\* C24: every command the server executes is one the peer sent as a message
\* of its stream
C24_PayloadNotExecuted ==
    input.function = "stream"
        => \A i \in 1..Len(executed) :
              \E j \in 1..Len(input.messages) :
                 input.messages[j] = Message(executed[i])

\* a run of a number-filtering mode has completed: the client received the
\* stats and ended without an exception
RunCompleted ==
    /\ mode \in {GENERATE_NUMBERS, ENTER_NUMBERS}
    /\ cpc = "closed" /\ cexc = ""
    /\ Len(responses) = Len(requests)
    /\ responses # <<>> /\ Last(responses).name = "stats"

\* the numbers of the isprime requests that were answered with bool(1), in
\* the order they were sent
AnsweredPrime ==
    LET yes == {i \in 1..Len(requests) :
                   /\ requests[i].name = "isprime"
                   /\ responses[i] = BoolCommand(TRUE)}
    IN [k \in 1..Cardinality(yes) |->
           requests[CHOOSE i \in yes :
                       Cardinality({j \in yes : j <= i}) = k].n]

\* C25: after a completed run of a number-filtering mode the output file
\* holds, one per line and in the order sent, the numbers answered with
\* bool(1), which are the primes among the numbers sent; it has primes_cnt
\* lines, and numbers_cnt is the number of isprime commands sent (each
\* element of output_file is one line written)
C25_OutputIsThePrimes ==
    RunCompleted
        => /\ output_file = AnsweredPrime
           /\ output_file = SelectSeq(NumbersOf(requests), IsPrimeNumber)
           /\ Len(output_file) = Last(responses).primes_cnt
           /\ Last(responses).numbers_cnt = Len(NumbersOf(requests))

\* C25 witness: a completed run of the generate mode on -2^31 and 5
C25_Witness ==
    /\ RunCompleted
    /\ mode = GENERATE_NUMBERS
    /\ requests = <<WhoCommand(NoAuthor), IsPrimeCommand(MIN_ALLOWED),
                    IsPrimeCommand(5), FinishSessionCommand>>
    /\ output_file = <<5>>
    /\ Last(responses) = StatsCommand(2, 1, MIN_ALLOWED, 5)

====
